---- MODULE Spec2Model ----
(***************************************************************************)
(* A model of the Logger class of pino.js (src/unnamed/part_000) and of    *)
(* the calls index.js makes on it.  The class configures the pino library: *)
(* what that library does with the configuration (redaction paths, nested  *)
(* key, bindings formatter, transport targets and their levels) is         *)
(* modelled at the place of the source that passes the configuration.      *)
(*                                                                         *)
(* JavaScript values are tagged records [k |-> kind, v |-> payload]; an    *)
(* object's payload is a function from its keys to values.                 *)
(***************************************************************************)
EXTENDS Integers, Sequences, FiniteSets, TLC

VARIABLES pc, opts, meta, targets, clock, stream, pending, delivered, emitted,
          chain, chind, wcall, wline

vars == <<pc, opts, meta, targets, clock, stream, pending, delivered, emitted,
          chain, chind, wcall, wline>>

\* Number of log calls made on the constructed logger.
MaxEmit == 2

\* Depth of nesting of child loggers.
MaxChild == 2

----------------------------------------------------------------------------
(* JavaScript values *)

Undefined == [k |-> "undefined", v |-> 0]

Str(s) == [k |-> "str", v |-> s]

Num(n) == [k |-> "num", v |-> n]

Bool(b) == [k |-> "bool", v |-> b]

Obj(f) == [k |-> "obj", v |-> f]

EmptyObj == Obj([x \in {} |-> Undefined])

\* o.key
Get(o, key) == IF key \in DOMAIN o.v THEN o.v[key] ELSE Undefined

\* o?.key
OptGet(o, key) == IF o.k = "obj" THEN Get(o, key) ELSE Undefined

\* x ?? d
Nullish(x, d) == IF x.k = "undefined" THEN d ELSE x

\* the truthiness an if (...) tests
Truthy(x) ==
  CASE x.k = "undefined" -> FALSE
    [] x.k = "bool" -> x.v
    [] x.k = "str" -> x.v # ""
    [] x.k = "num" -> x.v # 0
    [] OTHER -> TRUE

----------------------------------------------------------------------------
(* The options of the logger *)

MongoUri == "mongodb://mongo.one.db:27017,mongo.two.db:27017,mongo.three.db:27017/logs?replicaSet=dbrs"

MongoConnection ==
  Obj([uri |-> Str(MongoUri), database |-> Str("logs"),
       collection |-> Str("log-collection")])

\* the initial value of the private field #meta
DefaultMeta ==
  Obj([console |-> Bool(TRUE),
       file |-> Obj([enable |-> Bool(FALSE), path |-> Str("./logs/app.log")]),
       mongo |-> Obj([enable |-> Bool(FALSE), options |-> MongoConnection])])

\* the options of the exported logger
ExportOpts ==
  Obj([console |-> Bool(TRUE),
       file |-> Obj([enable |-> Bool(TRUE), path |-> Str("./logs/app.log")]),
       mongo |-> Obj([enable |-> Bool(TRUE), options |-> MongoConnection])])

\* the options a caller constructs a Logger with: none, the exported ones,
\* and objects that mention only some of the targets
OptsChoices ==
  { Undefined,
    ExportOpts,
    Obj([file |-> Obj([enable |-> Bool(TRUE), path |-> Str("./logs/app.log")])]),
    Obj([mongo |-> Obj([enable |-> Bool(TRUE), options |-> MongoConnection])]),
    Obj([mongo |-> Obj([enable |-> Bool(TRUE)])]),
    Obj([console |-> Bool(FALSE),
         file |-> Obj([enable |-> Bool(TRUE), path |-> Str("./logs/app.log")]),
         mongo |-> Obj([enable |-> Bool(FALSE), options |-> MongoConnection])]) }

\* this.#meta = opts ?? this.#meta
MetaOf(o) == Nullish(o, DefaultMeta)

LevelNames == {"trace", "debug", "info", "notice", "warn", "error", "fatal"}

\* the numeric value of a level: pino's levels and customLevels.notice
LevelVal(name) ==
  CASE name = "trace" -> 10
    [] name = "debug" -> 20
    [] name = "info" -> 30
    [] name = "notice" -> 35
    [] name = "warn" -> 40
    [] name = "error" -> 50
    [] name = "fatal" -> 60

\* options.level
LoggerLevel == "trace"

ConsoleTarget == "pino-pretty"

FileTarget == "pino/file"

MongoTarget == "pino-mongodb"

Kinds == {ConsoleTarget, FileTarget, MongoTarget}

consoleLogger ==
  [target |-> ConsoleTarget, level |-> "trace",
   options |-> Obj([colorize |-> Bool(TRUE), sync |-> Bool(FALSE),
                    singleLine |-> Bool(TRUE), levelFirst |-> Bool(TRUE),
                    translateTime |-> Str("SYS:standard")])]

fileLogger(m) ==
  [target |-> FileTarget, level |-> "trace",
   options |-> Obj([destination |-> Nullish(Get(Get(m, "file"), "path"), Str("")),
                    sync |-> Bool(FALSE)])]

mongoDbLoggerTrace(m) ==
  [target |-> MongoTarget, level |-> "trace",
   options |-> Obj([uri |-> Nullish(Get(Get(Get(m, "mongo"), "options"), "uri"), Str("")),
                    database |-> Nullish(Get(Get(Get(m, "mongo"), "options"), "database"), Str("")),
                    collection |-> Nullish(Get(Get(Get(m, "mongo"), "options"), "uri"), Str("")),
                    mongoOptions |-> EmptyObj,
                    sync |-> Bool(FALSE)])]

mongoDbLogger(m) ==
  [target |-> MongoTarget, level |-> "info",
   options |-> Obj([uri |-> Nullish(Get(Get(Get(m, "mongo"), "options"), "uri"), Str("")),
                    database |-> Nullish(Get(Get(Get(m, "mongo"), "options"), "database"), Str("")),
                    collection |-> Nullish(Get(Get(Get(m, "mongo"), "options"), "uri"), Str("")),
                    mongoOptions |-> EmptyObj,
                    sync |-> Bool(FALSE)])]

\* the getter #mongoDbLogger reads a property of meta.mongo.options: a TypeError
\* when that is undefined
TransportThrows(m) ==
  /\ Truthy(OptGet(OptGet(m, "mongo"), "enable"))
  /\ Get(Get(m, "mongo"), "options").k # "obj"

\* the targets the getter #transport pushes, in its order
TransportTargets(m) ==
  (IF Truthy(OptGet(m, "console")) THEN <<consoleLogger>> ELSE <<>>)
  \o (IF Truthy(OptGet(OptGet(m, "file"), "enable")) THEN <<fileLogger(m)>> ELSE <<>>)
  \o (IF Truthy(OptGet(OptGet(m, "mongo"), "enable")) THEN <<mongoDbLogger(m)>> ELSE <<>>)

----------------------------------------------------------------------------
(* options.redact, and what pino does with it *)

RedactPathsNoPhone ==
  << <<"user", "address">>, <<"user", "passport">>, <<"*", "password">> >>

RedactPathsTopPassword ==
  << <<"user", "address">>, <<"user", "passport">>, <<"user", "phone">>,
     <<"password">> >>

RedactPaths ==
  << <<"user", "address">>, <<"user", "passport">>, <<"user", "phone">>,
     <<"*", "password">> >>

Censor == "[PINO REDACTED]"

RedactCensor == FALSE

\* redact.remove
RedactRemove == TRUE

\* The redaction of one path below a property value: a segment names a key,
\* "*" every key; a value that is not an object ends the walk.
RECURSIVE RedactAt(_, _)
RedactAt(val, path) ==
  IF val.k # "obj" THEN val
  ELSE LET hit == IF path[1] = "*" THEN DOMAIN val.v ELSE {path[1]} \cap DOMAIN val.v
       IN  IF Len(path) = 1
           THEN IF RedactRemove
                THEN Obj([x \in DOMAIN val.v \ hit |-> val.v[x]])
                ELSE Obj([x \in DOMAIN val.v |->
                            IF x \in hit THEN Str(Censor) ELSE val.v[x]])
           ELSE Obj([x \in DOMAIN val.v |->
                       IF x \in hit THEN RedactAt(val.v[x], Tail(path)) ELSE val.v[x]])

RECURSIVE RedactAll(_, _)
RedactAll(val, paths) ==
  IF paths = <<>> THEN val ELSE RedactAll(RedactAt(val, Head(paths)), Tail(paths))

\* The paths below top-level key `key`: the rest of every configured path
\* whose first segment is the key or the wildcard.
RECURSIVE SubPaths(_, _)
SubPaths(key, paths) ==
  IF paths = <<>> THEN <<>>
  ELSE LET p == Head(paths)
       IN  (IF Len(p) > 1 /\ p[1] \in {key, "*"} THEN <<Tail(p)>> ELSE <<>>)
           \o SubPaths(key, Tail(paths))

\* a configured path of one segment redacts the whole top-level value
TopLevelPath(key) == \E i \in DOMAIN RedactPaths : RedactPaths[i] = <<key>>

\* stringifiers[key] || wildcardStringifier, applied to a top-level value
StringifyTop(key, val) ==
  IF TopLevelPath(key)
  THEN IF RedactRemove THEN Undefined ELSE Str(Censor)
  ELSE RedactAll(val, SubPaths(key, RedactPaths))

\* the properties of a logged object as they are written: each own property
\* that is not undefined, stringified with the redaction of its key
Props(obj) ==
  LET keep == {x \in DOMAIN obj.v :
                 /\ obj.v[x].k # "undefined"
                 /\ StringifyTop(x, obj.v[x]).k # "undefined"}
  IN  [x \in keep |-> StringifyTop(x, obj.v[x])]

----------------------------------------------------------------------------
(* Bindings, and the record a log call writes.  A line is the sequence of *)
(* the <<key, value>> pairs of the JSON text, in the order written.       *)

\* formatters.bindings
BindingsFormatter(b) == Obj([host |-> Get(b, "hostname"), pid |-> Get(b, "pid")])

\* the keys of the object formatters.bindings returns, in insertion order
FormattedKeys == <<"host", "pid">>

RECURSIVE PairsOf(_, _)
PairsOf(o, keys) ==
  IF keys = <<>> THEN <<>>
  ELSE LET key == Head(keys)
           val == IF Get(o, key).k = "undefined" THEN Undefined
                  ELSE StringifyTop(key, Get(o, key))
       IN  (IF val.k = "undefined" THEN <<>> ELSE << <<key, val>> >>)
           \o PairsOf(o, Tail(keys))

\* the bindings of a logger: its parent's, then those of the formatted object
AsChindings(data, bindings) ==
  data \o PairsOf(BindingsFormatter(bindings), FormattedKeys)

\* pino's base bindings of the process
BaseBindings == Obj([pid |-> Num(4242), hostname |-> Str("localhost")])

RootChindings == AsChindings(<<>>, BaseBindings)

\* options.nestedKey
NestedKey == "data"

\* options.messageKey
MessageKey == "msg"

LOGMessageFirst(args) ==
  [obj |-> EmptyObj, msg |-> IF Len(args) >= 1 THEN args[1] ELSE Undefined]

\* a level method's reading of its arguments: an object first is the merging
\* object and the next argument the message, anything else first is the message
LOG(args) ==
  LET o == IF Len(args) >= 1 THEN args[1] ELSE Undefined
  IN  IF o.k = "obj"
      THEN [obj |-> o, msg |-> IF Len(args) >= 2 THEN args[2] ELSE Undefined]
      ELSE [obj |-> EmptyObj, msg |-> o]

\* the line written for a call: level and time, the bindings, the object's
\* properties under the nested key, the message
AsJson(chindings, obj, msg, num, t) ==
  << <<"level", Num(num)>>, <<"time", Num(t)>> >>
  \o chindings
  \o (IF DOMAIN Props(obj) # {} THEN << <<NestedKey, Obj(Props(obj))>> >> ELSE <<>>)
  \o (IF msg.k # "undefined" THEN << <<MessageKey, msg>> >> ELSE <<>>)

\* the line a level method of a logger writes
WriteLine(chindings, level, args, t) ==
  AsJson(chindings, LOG(args).obj, LOG(args).msg, LevelVal(level), t)

\* the record a sink parses from a line: of a repeated key the last one
Parse(line) ==
  [key \in {line[i][1] : i \in DOMAIN line} |->
     line[CHOOSE i \in DOMAIN line :
            /\ line[i][1] = key
            /\ \A j \in DOMAIN line : line[j][1] = key => j <= i][2]]

----------------------------------------------------------------------------
(* The calls of index.js, and the calls explored beside them *)

\* const user of index.js
DemoUser ==
  Obj([id |-> Str("johndoe"), name |-> Str("John Doe"),
       address |-> Str("123 Imaginary Street"),
       passport |-> Obj([number |-> Str("BE123892"), issued |-> Num(2023),
                         expires |-> Num(2027)]),
       password |-> Str("123"), phone |-> Str("123-234-544")])

\* logger.info({ user }, 'USER')
UserCall == <<Obj([user |-> DemoUser]), Str("USER")>>

\* logger.debug({ password: 123 }, 'USER')
PasswordCall == <<Obj([password |-> Num(123)]), Str("USER")>>

\* child.info('child')
ChildCall == <<Str("child")>>

\* the calls made on the logger with its transport, at any level
EmitCalls == {UserCall, ChildCall}

\* logger.child({ ID: 1 }), and bindings of other shapes
ChildBindings ==
  { Obj([ID |-> Num(1)]),
    Obj([ID |-> Num(2), tag |-> Str("t")]),
    Obj([hostname |-> Str("worker")]) }

One(key, val) == Obj([x \in {key} |-> val])

Leaf == Str("s")

TopKeys == {"user", "account", "password"}

MidKeys == {"address", "passport", "phone", "password", "id"}

LowKeys == {"password", "number"}

\* the context trees explored: every single path of up to three keys,
\* every pair of keys below a top-level key, and the objects of index.js
Contexts ==
  {One(a, Leaf) : a \in TopKeys}
  \cup {One(a, One(b, Leaf)) : a \in TopKeys, b \in MidKeys}
  \cup {One(a, One(b, One(c, Leaf))) : a \in TopKeys, b \in MidKeys, c \in LowKeys}
  \cup {One(a, Obj([x \in {b, c} |-> Leaf])) : a \in TopKeys, b \in MidKeys, c \in MidKeys}
  \cup {Obj([user |-> DemoUser]), Obj([password |-> Num(123)]),
        Obj([a |-> Num(1)]), EmptyObj,
        Obj([user |-> One("id", Leaf), account |-> One("password", Leaf),
             password |-> Leaf])}

\* the argument lists explored: the calls of index.js, a message
\* followed by another argument, an object alone, an object and a message
WriteArgs ==
  {UserCall, PasswordCall, ChildCall}
  \cup {<<Str("m"), Str("other")>>, <<Obj([a |-> Num(1)])>>}
  \cup {<<c, Str("m")>> : c \in Contexts}

WriteCalls == [level : LevelNames, args : WriteArgs]

NoCall == [level |-> "info", args |-> <<>>]

----------------------------------------------------------------------------
(* The logger and its transport *)

DequeueLast(q) == [item |-> q[Len(q)], rest |-> SubSeq(q, 1, Len(q) - 1)]

\* the element a target's stream takes next from its buffer, and the rest
Dequeue(q) == [item |-> Head(q), rest |-> Tail(q)]

\* whether the transport writes a line of level `num` to the target `kind`
Accepts(tgts, kind, num) ==
  \E i \in DOMAIN tgts : tgts[i].target = kind /\ LevelVal(tgts[i].level) <= num

Init ==
  /\ pc = "new"
  /\ opts \in OptsChoices
  /\ meta = DefaultMeta
  /\ targets = <<>>
  /\ clock = 0
  /\ stream = <<>>
  /\ pending = [kind \in Kinds |-> <<>>]
  /\ delivered = [kind \in Kinds |-> <<>>]
  /\ emitted = <<>>
  /\ chain = <<>>
  /\ chind = <<>>
  /\ wcall = NoCall
  /\ wline = <<>>

\* new Logger(opts)
Construct ==
  /\ pc = "new"
  /\ meta' = MetaOf(opts)
  /\ IF TransportThrows(MetaOf(opts))
     THEN /\ pc' = "threw"
          /\ UNCHANGED <<targets, chind>>
     ELSE /\ pc' = "ready"
          /\ targets' = TransportTargets(MetaOf(opts))
          /\ chind' = RootChindings
  /\ UNCHANGED <<opts, clock, stream, pending, delivered, emitted, chain, wcall, wline>>

\* logger.<level>(...args): the line is written to the transport's stream
Emit(level, args) ==
  /\ pc = "ready"
  /\ clock < MaxEmit
  /\ LevelVal(level) >= LevelVal(LoggerLevel)
  /\ clock' = clock + 1
  /\ stream' = Append(stream, WriteLine(chind, level, args, clock + 1))
  /\ emitted' = Append(emitted, [level |-> level, args |-> args,
                                line |-> WriteLine(chind, level, args, clock + 1)])
  /\ UNCHANGED <<pc, opts, meta, targets, pending, delivered, chain, chind, wcall, wline>>

\* the transport's worker reads the next line and writes it to every target
\* whose level it reaches
Worker ==
  /\ stream # <<>>
  /\ stream' = Tail(stream)
  /\ pending' = [kind \in Kinds |->
                   IF Accepts(targets, kind, Parse(Head(stream))["level"].v)
                   THEN Append(pending[kind], Head(stream))
                   ELSE pending[kind]]
  /\ UNCHANGED <<pc, opts, meta, targets, clock, delivered, emitted, chain, chind, wcall, wline>>

\* a target (sync: false) writes out the next line of its buffer
Flush(kind) ==
  /\ pending[kind] # <<>>
  /\ delivered' = [delivered EXCEPT ![kind] = Append(@, Dequeue(pending[kind]).item)]
  /\ pending' = [pending EXCEPT ![kind] = Dequeue(pending[kind]).rest]
  /\ UNCHANGED <<pc, opts, meta, targets, clock, stream, emitted, chain, chind, wcall, wline>>

Next ==
  \/ Construct
  \/ \E level \in LevelNames, args \in EmitCalls : Emit(level, args)
  \/ Worker
  \/ \E kind \in Kinds : Flush(kind)

Spec == Init /\ [][Next]_vars

----------------------------------------------------------------------------
(* One call on the exported logger or on a child of it *)

InitWrite ==
  /\ pc = "ready"
  /\ opts = ExportOpts
  /\ meta = MetaOf(ExportOpts)
  /\ targets = TransportTargets(MetaOf(ExportOpts))
  /\ clock = 0
  /\ stream = <<>>
  /\ pending = [kind \in Kinds |-> <<>>]
  /\ delivered = [kind \in Kinds |-> <<>>]
  /\ emitted = <<>>
  /\ chain = <<>>
  /\ chind = RootChindings
  /\ wcall \in WriteCalls
  /\ wline = <<>>

\* logger.child(bindings)
Child(bindings) ==
  /\ wline = <<>>
  /\ Len(chain) < MaxChild
  /\ chain' = Append(chain, bindings)
  /\ chind' = AsChindings(chind, bindings)
  /\ UNCHANGED <<pc, opts, meta, targets, clock, stream, pending, delivered, emitted, wcall, wline>>

\* the line the call writes
ApplyWrite ==
  /\ wline = <<>>
  /\ wline' = WriteLine(chind, wcall.level, wcall.args, clock)
  /\ UNCHANGED <<pc, opts, meta, targets, clock, stream, pending, delivered, emitted, chain, chind, wcall>>

NextWrite ==
  \/ \E bindings \in ChildBindings : Child(bindings)
  \/ ApplyWrite

SpecWrite == InitWrite /\ [][NextWrite]_vars

----------------------------------------------------------------------------
(* What the properties below speak of *)

\* the lines a target has been given, in the order it was given them
Received(kind) == delivered[kind] \o pending[kind]

\* the calls whose line the worker has read
Routed == SubSeq(emitted, 1, Len(emitted) - Len(stream))

LevelOrder == <<"trace", "debug", "info", "notice", "warn", "error", "fatal">>

Rank(name) == CHOOSE i \in DOMAIN LevelOrder : LevelOrder[i] = name

\* the thresholds stated for the three sinks
StatedMin(kind) ==
  CASE kind = ConsoleTarget -> "trace"
    [] kind = FileTarget -> "trace"
    [] kind = MongoTarget -> "info"

\* whether the logger's options enable a sink
EnabledIn(o, kind) ==
  CASE kind = ConsoleTarget -> Truthy(OptGet(o, "console"))
    [] kind = FileTarget -> Truthy(OptGet(OptGet(o, "file"), "enable"))
    [] kind = MongoTarget -> Truthy(OptGet(OptGet(o, "mongo"), "enable"))

\* the key of the options that configures a sink
OptionKey(kind) ==
  CASE kind = ConsoleTarget -> "console"
    [] kind = FileTarget -> "file"
    [] kind = MongoTarget -> "mongo"

LinesOf(calls) == [i \in DOMAIN calls |-> calls[i].line]

\* the context of a record: the object under "data", empty when there is none
ContextOf(rec) == IF "data" \in DOMAIN rec THEN rec["data"] ELSE EmptyObj

StatedPaths ==
  { <<"user", "address">>, <<"user", "passport">>, <<"user", "phone">>,
    <<"*", "password">> }

\* whether a value holds something at a path, "*" standing for any one key
RECURSIVE HoldsAt(_, _)
HoldsAt(val, path) ==
  /\ val.k = "obj"
  /\ LET hit == IF path[1] = "*" THEN DOMAIN val.v ELSE {path[1]} \cap DOMAIN val.v
     IN  IF Len(path) = 1 THEN hit # {}
         ELSE \E x \in hit : HoldsAt(val.v[x], Tail(path))

Sensitive(val) == \E p \in StatedPaths : HoldsAt(val, p)

\* the key paths of a tree
RECURSIVE KeyPaths(_)
KeyPaths(val) ==
  IF val.k # "obj" THEN {}
  ELSE UNION { {<<x>>} \cup {<<x>> \o p : p \in KeyPaths(val.v[x])} : x \in DOMAIN val.v }

\* the value at a key path of a tree
RECURSIVE At(_, _)
At(val, path) == IF path = <<>> THEN val ELSE At(val.v[Head(path)], Tail(path))

\* a key path that a stated path names, segment by segment
MatchedBy(path) ==
  \E p \in StatedPaths :
    /\ Len(p) = Len(path)
    /\ \A j \in DOMAIN p : p[j] \in {"*", path[j]}

\* a key path at or below one that a stated path names
Covered(path) == \E n \in 1..Len(path) : MatchedBy(SubSeq(path, 1, n))

\* the call of SpecWrite has been written, and its first argument is an object
WroteObject == wline # <<>> /\ Len(wcall.args) >= 1 /\ wcall.args[1].k = "obj"

----------------------------------------------------------------------------
(* The properties *)

\* C1: every line the worker has read is given to a sink exactly when the
\* logger's options enable the sink and the level of the call is at least the
\* sink's threshold (console trace, file trace, document store info) in the
\* order trace < debug < info < notice < warn < error < fatal; so the document
\* store is never given a trace or debug line.
C1_Routing ==
  pc = "ready" =>
    \A kind \in Kinds :
      LET Pass(c) == EnabledIn(meta, kind) /\ Rank(c.level) >= Rank(StatedMin(kind))
      IN  /\ Received(kind) = LinesOf(SelectSeq(Routed, Pass))
          /\ kind = MongoTarget =>
               \A i \in DOMAIN Received(kind) :
                 Parse(Received(kind)[i])["level"].v
                   \notin {LevelVal("trace"), LevelVal("debug")}

\* a debug line went to the console and the file only, an info line to all three
C1_Witness ==
  /\ pc = "ready"
  /\ stream = <<>>
  /\ Len(emitted) = 2
  /\ emitted[1].level = "debug"
  /\ emitted[2].level = "info"
  /\ Len(delivered[ConsoleTarget]) = 2
  /\ Len(delivered[FileTarget]) = 2
  /\ delivered[MongoTarget] = <<emitted[2].line>>

\* C2: each call writes one line, told from the others by its time, whose
\* context holds nothing at any of the paths user.address, user.passport,
\* user.phone, *.password; what is on its way to the worker and what any sink
\* is given is one of those lines, so all sinks see the same redacted content.
C2_RedactedBeforeFanOut ==
  /\ \A j \in DOMAIN emitted :
       LET rec == Parse(emitted[j].line)
       IN  /\ rec["time"] = Num(j)
           /\ ~Sensitive(ContextOf(rec))
  /\ \A i \in DOMAIN stream :
       \E j \in DOMAIN emitted : emitted[j].line = stream[i]
  /\ \A kind \in Kinds :
       \A i \in DOMAIN Received(kind) :
         \E j \in DOMAIN emitted : emitted[j].line = Received(kind)[i]

\* the call of index.js with the user object has reached two sinks
C2_Witness ==
  /\ Len(emitted) >= 1
  /\ emitted[1].args = UserCall
  /\ Sensitive(emitted[1].args[1])
  /\ delivered[ConsoleTarget] # <<>>
  /\ delivered[MongoTarget] # <<>>
  /\ delivered[ConsoleTarget][1] = delivered[MongoTarget][1]
  /\ delivered[ConsoleTarget][1] = emitted[1].line

C4_WildcardDepth ==
  WroteObject =>
    LET in == wcall.args[1]
        out == ContextOf(Parse(wline))
    IN  /\ "password" \in DOMAIN in.v =>
             /\ "password" \in DOMAIN out.v
             /\ in.v["password"].k # "obj" => out.v["password"] = in.v["password"]
        /\ \A a \in DOMAIN in.v :
             in.v[a].k = "obj" =>
               /\ a \in DOMAIN out.v
               /\ "password" \notin DOMAIN out.v[a].v
               /\ \A b \in DOMAIN in.v[a].v :
                    ( /\ b # "password"
                      /\ ~MatchedBy(<<a, b>>)
                      /\ in.v[a].v[b].k = "obj"
                      /\ "password" \in DOMAIN in.v[a].v[b].v )
                    => Get(out.v[a], b) = in.v[a].v[b]

\* the record of logger.debug({ password: 123 }, 'USER') has been written
C4_Witness ==
  /\ wline # <<>>
  /\ wcall.level = "debug"
  /\ wcall.args = PasswordCall
  /\ ContextOf(Parse(wline)) = Obj([password |-> Num(123)])

C8_ArgumentShapes ==
  wline # <<>> =>
    LET rec == Parse(wline)
        a == wcall.args
    IN  /\ rec["level"] = Num(LevelVal(wcall.level))
        /\ (Len(a) = 1 /\ a[1].k = "str") =>
             /\ rec["msg"] = a[1]
             /\ "data" \notin DOMAIN rec
        /\ (Len(a) = 2 /\ a[1].k = "obj" /\ a[2].k = "str") =>
             /\ rec["msg"] = a[2]
             /\ ContextOf(rec) = Obj(Props(a[1]))
             /\ ("data" \in DOMAIN rec) = (DOMAIN a[1].v # {})

\* an object and a message have been written, each in its place
C8_Witness ==
  /\ wline # <<>>
  /\ wcall.args = <<Obj([a |-> Num(1)]), Str("m")>>
  /\ Parse(wline)["msg"] = Str("m")
  /\ Parse(wline)["data"] = Obj([a |-> Num(1)])

\* C7: the lines a sink has been given are in the order of the calls, none
\* overtaking an earlier one, and each of them is the line of a call; a call
\* itself hands nothing to a sink.
C7_FifoOrder ==
  \A kind \in Kinds :
    LET got == Received(kind)
        time == [i \in DOMAIN got |-> Parse(got[i])["time"].v]
    IN  /\ \A i, j \in DOMAIN got : i < j => time[i] < time[j]
        /\ \A i \in DOMAIN got :
             /\ time[i] \in DOMAIN emitted
             /\ emitted[time[i]].line = got[i]
             /\ time[i] <= Len(Routed)

\* both calls have returned; one sink has written both lines out while
\* another still holds both
C7_Witness ==
  /\ clock = 2
  /\ Len(delivered[ConsoleTarget]) = 2
  /\ delivered[FileTarget] = <<>>
  /\ Len(pending[FileTarget]) = 2

\* C9: a sink that the caller's options do not mention keeps its default:
\* the console enabled, the file and the document store disabled.
C9_DefaultsKept ==
  pc = "ready" =>
    \A kind \in Kinds :
      (opts.k # "obj" \/ OptionKey(kind) \notin DOMAIN opts.v)
        => ((\E i \in DOMAIN targets : targets[i].target = kind)
              = EnabledIn(DefaultMeta, kind))

\* C10: the document-store sink's uri, database and collection are those of
\* the options.
C10_MongoDestination ==
  pc = "ready" =>
    \A i \in DOMAIN targets :
      targets[i].target = MongoTarget =>
        /\ Get(targets[i].options, "uri") = Get(Get(Get(meta, "mongo"), "options"), "uri")
        /\ Get(targets[i].options, "database") = Get(Get(Get(meta, "mongo"), "options"), "database")
        /\ Get(targets[i].options, "collection") = Get(Get(Get(meta, "mongo"), "options"), "collection")

====
